---------------------------- MODULE Spec2Model ----------------------------
(***************************************************************************)
(* Model of scripts/fix_markdown_encoding.py: the ordered rule table       *)
(* REPLACEMENTS, the per-file fixer fix_file and the run loop of main.     *)
(*                                                                         *)
(* Text is a sequence of one-character strings.  A stored file is a        *)
(* sequence of the same characters, in which BOM stands for the three      *)
(* bytes EF BB BF and BadByte for a byte sequence that is not UTF-8.       *)
(*                                                                         *)
(* Two specifications share the variables:                                 *)
(*   FixSpec  the rule loop of fix_file, one rule per step, on texts drawn *)
(*            from Inputs, applied again to its own output;                *)
(*   Spec     main: successive runs over the files of docs/, live or dry,  *)
(*            with read, decode and write failures.                        *)
(***************************************************************************)
EXTENDS Integers, Sequences, FiniteSets

(***************************************************************************)
(* Bounds of the model.                                                    *)
(***************************************************************************)
MaxPad == 1        \* characters of context on each side of an input snippet
MaxPasses == 2     \* times fix_file is applied to its own output (FixSpec)
MaxRuns == 2       \* successive invocations of main (Spec)
MaxFiles == 2      \* markdown files under docs/ (Spec)
MaxKept == 1       \* characters a failed write may leave in the file (Spec)

(***************************************************************************)
(* Characters and string literals of the source.                           *)
(***************************************************************************)
Q == "?"
SP == " "
NL == "\n"
BOM == "BOM"
BadByte == "BadByte"

Sp3 == <<SP, SP, SP>>
Stars == <<"*", "*">>
Bold(word) == Stars \o word \o Stars
Teaches == <<"T", "e", "a", "c", "h", "e", "s">>
Demonstrates == <<"D", "e", "m", "o", "n", "s", "t", "r", "a", "t", "e", "s">>
Engages == <<"E", "n", "g", "a", "g", "e", "s">>
Guides == <<"G", "u", "i", "d", "e", "s">>
Inspires == <<"I", "n", "s", "p", "i", "r", "e", "s">>
Extraordinary ==
    <<"e", "x", "t", "r", "a", "o", "r", "d", "i", "n", "a", "r", "y", "!", SP>>
VisionStatement ==
    Bold(<<"V", "i", "s", "i", "o", "n", SP,
           "S", "t", "a", "t", "e", "m", "e", "n", "t">>)
Complete == <<"C", "o", "m", "p", "l", "e", "t", "e">>
Planned == <<"P", "l", "a", "n", "n", "e", "d">>
Partial == <<"P", "a", "r", "t", "i", "a", "l">>
Dash == <<"-", SP>>

(***************************************************************************)
(* The regular expressions of the table, as sequences of elements: a       *)
(* character stands for itself (the source writes it escaped), and the    *)
(* three constructs of the 'Target in table' pattern are spelt out.        *)
(***************************************************************************)
Whitespace == {SP, NL, "\t", "\r", "\f"}

WsStar == "\\s*"              \* greedy run of whitespace
LookBehindBar == "(?<=\\|)"   \* the character before is |
LookAheadBar == "(?=\\|)"     \* the character after is |
Lit(s) == s

Rule(p, r, d) == [pattern |-> p, replacement |-> r, description |-> d]

REPLACEMENTS ==
    << Rule(Lit(<<Q, Q, Q>>), <<Q, Q, Q>>, "Tree branch with line"),
       Rule(Lit(<<Q>> \o Sp3 \o <<Q>>), <<Q>> \o Sp3 \o <<Q>>,
            "Tree vertical + branch"),
       Rule(Lit(<<Q>> \o Sp3), <<Q>> \o Sp3, "Tree vertical with spaces"),
       Rule(Lit(<<Q, SP>> \o Bold(Teaches)),
            <<Q, Q, SP>> \o Bold(Teaches), "Books emoji"),
       Rule(Lit(<<Q, SP>> \o Bold(Demonstrates)),
            <<Q, Q, SP>> \o Bold(Demonstrates), "Light bulb emoji"),
       Rule(Lit(<<Q, SP>> \o Bold(Engages)),
            <<Q, Q, SP>> \o Bold(Engages), "Handshake emoji"),
       Rule(Lit(<<Q, SP>> \o Bold(Guides)),
            <<Q, Q, SP>> \o Bold(Guides), "Graduation cap emoji"),
       Rule(Lit(<<Q, SP>> \o Bold(Inspires)),
            <<Q, SP>> \o Bold(Inspires), "Sparkles emoji"),
       Rule(Lit(Extraordinary \o <<Q, Q>>),
            Extraordinary \o <<Q, Q>>, "Rocket emoji"),
       Rule(Lit(<<"#", "#", "#", SP, Q, Q, SP>> \o VisionStatement),
            <<"#", "#", "#", SP, Q, Q, SP>> \o VisionStatement, "Target emoji"),
       Rule(Lit(<<"#", "#", SP, Q, Q, SP>> \o VisionStatement),
            <<"#", "#", "#", SP, Q, Q, SP>> \o VisionStatement,
            "Target emoji (alternate)"),
       Rule(<<LookBehindBar, WsStar, Q, Q, WsStar, LookAheadBar>>,
            <<SP, Q, Q, SP>>, "Target in table"),
       Rule(Lit(Dash \o <<Q, SP>> \o Complete),
            Dash \o <<Q, SP>> \o Complete, "Check mark"),
       Rule(Lit(Dash \o <<Q, SP>> \o Planned),
            Dash \o <<Q, SP>> \o Planned, "Hourglass"),
       Rule(Lit(Dash \o <<Q, SP>> \o Partial),
            Dash \o <<Q, Q, SP>> \o Partial, "Yellow circle") >>

NumRules == Len(REPLACEMENTS)

RuleNamed(d) == CHOOSE r \in 1..NumRules : REPLACEMENTS[r].description = d

(***************************************************************************)
(* The matcher.  MatchFrom(pat, k, t, j) is the position just after the    *)
(* match of pat[k..] that starts at position j of t, or 0 when there is    *)
(* none; \s* takes the longest run first and gives characters back.        *)
(***************************************************************************)
RECURSIVE WsRun(_, _)
WsRun(t, j) ==
    IF j <= Len(t) /\ t[j] \in Whitespace THEN 1 + WsRun(t, j + 1) ELSE 0

RECURSIVE MatchFrom(_, _, _, _), StarTry(_, _, _, _, _)
MatchFrom(pat, k, t, j) ==
    IF k > Len(pat) THEN j
    ELSE LET e == pat[k] IN
         CASE e = WsStar -> StarTry(pat, k, t, j, WsRun(t, j))
           [] e = LookBehindBar ->
                IF j > 1 /\ t[j - 1] = "|"
                THEN MatchFrom(pat, k + 1, t, j) ELSE 0
           [] e = LookAheadBar ->
                IF j <= Len(t) /\ t[j] = "|"
                THEN MatchFrom(pat, k + 1, t, j) ELSE 0
           [] OTHER ->
                IF j <= Len(t) /\ t[j] = e
                THEN MatchFrom(pat, k + 1, t, j + 1) ELSE 0

StarTry(pat, k, t, j, n) ==
    LET r == MatchFrom(pat, k + 1, t, j + n) IN
    IF r # 0 THEN r
    ELSE IF n = 0 THEN 0 ELSE StarTry(pat, k, t, j, n - 1)

(***************************************************************************)
(* re.findall and re.sub: the non-overlapping matches, leftmost first.     *)
(***************************************************************************)
RECURSIVE FindFrom(_, _, _)
FindFrom(pat, t, i) ==
    IF i > Len(t) THEN 0
    ELSE LET e == MatchFrom(pat, 1, t, i) IN
         IF e = 0 THEN FindFrom(pat, t, i + 1)
         ELSE 1 + FindFrom(pat, t, e)

re_findall(pat, t) == FindFrom(pat, t, 1)

RECURSIVE SubFrom(_, _, _, _)
SubFrom(pat, rep, t, i) ==
    IF i > Len(t) THEN <<>>
    ELSE LET e == MatchFrom(pat, 1, t, i) IN
         IF e = 0 THEN <<t[i]>> \o SubFrom(pat, rep, t, i + 1)
         ELSE rep \o SubFrom(pat, rep, t, e)

re_sub(pat, rep, t) == SubFrom(pat, rep, t, 1)

(***************************************************************************)
(* One turn of fix_file's loop: rule r on the live text.                   *)
(***************************************************************************)
\* Variant: the result of re.sub is dropped instead of assigned to content.
ApplyRule_DropsSub(r, content, count) ==
    LET matches == re_findall(REPLACEMENTS[r].pattern, content)
    IN  [content |-> content, count |-> count + matches, matches |-> matches]

ApplyRule(r, content, count) ==
    LET rule == REPLACEMENTS[r]
        matches == re_findall(rule.pattern, content)
    IN  IF matches > 0
        THEN [content |-> re_sub(rule.pattern, rule.replacement, content),
              count |-> count + matches,
              matches |-> matches]
        ELSE [content |-> content, count |-> count, matches |-> 0]

RECURSIVE ApplyRules(_, _, _)
ApplyRules(r, content, count) ==
    IF r > NumRules THEN [content |-> content, count |-> count]
    ELSE LET s == ApplyRule(r, content, count)
         IN  ApplyRules(r + 1, s.content, s.count)

(***************************************************************************)
(* Inputs of FixSpec: a snippet with up to MaxPad characters of context on *)
(* each side.                                                              *)
(***************************************************************************)
PadChars == {Q, SP, "|"}

Pads == UNION {[1..n -> PadChars] : n \in 0..MaxPad}

VisionHeading == <<"#", "#", SP, Q, Q, SP>> \o VisionStatement
CheckMarkLine == Dash \o <<Q, SP>> \o Complete
TeachesLine == <<Q, SP>> \o Bold(Teaches)
PartialLine == Dash \o <<Q, SP>> \o Partial

Cores ==
    { <<>>, <<Q, Q>>, <<Q, Q, Q>>, <<Q>> \o Sp3, Sp3, <<SP, Q, Q, NL>>,
      <<"#">> \o VisionHeading,
      <<Q, SP>> \o Bold(Teaches), <<Q, SP>> \o Bold(Demonstrates),
      <<Q, SP>> \o Bold(Engages), <<Q, SP>> \o Bold(Guides),
      <<Q, SP>> \o Bold(Inspires), Extraordinary \o <<Q, Q>>,
      VisionHeading, CheckMarkLine,
      Dash \o <<Q, SP>> \o Planned, Dash \o <<Q, SP>> \o Partial }

Inputs == {a \o c \o b : a \in Pads, c \in Cores, b \in Pads}

(***************************************************************************)
(* Files.  Reading decodes UTF-8, which keeps a leading marker as the      *)
(* character U+FEFF and fails on a byte sequence that is not UTF-8;        *)
(* writing encodes utf-8-sig, which puts a marker in front of the text.    *)
(***************************************************************************)
Decodable(bytes) == \A k \in 1..Len(bytes) : bytes[k] # BadByte

Decode(bytes) == bytes

\* Variant: the file is written with encoding='utf-8'.
Encode_Plain(text) == text

Encode(text) == <<BOM>> \o text

Min(a, b) == IF a <= b THEN a ELSE b

\* What the environment does to the calls of one fix_file: nothing, the
\* open for reading fails, the open for writing fails (the file is left as
\* it was), or the write fails after the open truncated the file, leaving
\* a proper prefix of at most MaxKept characters.
IOs ==
    {[fault |-> f, kept |-> 0] : f \in {"none", "read", "open"}}
      \cup {[fault |-> "write", kept |-> k] : k \in 0..MaxKept}

\* if content != original_content: ... return True, replacement_count
\* return False, 0
Outcome(orig, new, count) ==
    IF new # orig THEN [changed |-> TRUE, count |-> count]
    ELSE [changed |-> FALSE, count |-> 0]

\* Variant: the handler returns True, 1.
Failed_AsFixed(stored) ==
    [changed |-> TRUE, count |-> 1, stored |-> stored, error |-> TRUE]

Failed(stored) ==
    [changed |-> FALSE, count |-> 0, stored |-> stored, error |-> TRUE]

\* Variant: the write is not guarded by "if not dry_run".
Persist_IgnoresDryRun(stored, dry, io, fixed) ==
    IF io.fault = "read" \/ ~Decodable(stored) THEN Failed(stored)
    ELSE LET out == Outcome(Decode(stored), fixed.content, fixed.count)
             bytes == Encode(fixed.content)
         IN  IF out.changed
             THEN CASE io.fault = "open" -> Failed(stored)
                    [] io.fault = "write" ->
                         Failed(SubSeq(bytes, 1, Min(io.kept, Len(bytes) - 1)))
                    [] OTHER ->
                         [changed |-> TRUE, count |-> out.count,
                          stored |-> bytes, error |-> FALSE]
             ELSE [changed |-> out.changed, count |-> out.count,
                   stored |-> stored, error |-> FALSE]

\* fix_file from "if content != original_content" on, and its handler:
\* `fixed` is what the loop over REPLACEMENTS made of the text read.
Persist(stored, dry, io, fixed) ==
    IF io.fault = "read" \/ ~Decodable(stored) THEN Failed(stored)
    ELSE LET out == Outcome(Decode(stored), fixed.content, fixed.count)
             bytes == Encode(fixed.content)
         IN  IF out.changed /\ ~dry
             THEN CASE io.fault = "open" -> Failed(stored)
                    [] io.fault = "write" ->
                         Failed(SubSeq(bytes, 1, Min(io.kept, Len(bytes) - 1)))
                    [] OTHER ->
                         [changed |-> TRUE, count |-> out.count,
                          stored |-> bytes, error |-> FALSE]
             ELSE [changed |-> out.changed, count |-> out.count,
                   stored |-> stored, error |-> FALSE]

\* fix_file(file_path, dry_run) on a file holding `stored`, under `io`.
fix_file(stored, dry, io) ==
    Persist(stored, dry, io, ApplyRules(1, Decode(stored), 0))

\* Every way one call of fix_file can end.
fix_file_outcomes(stored, dry) ==
    LET fixed == ApplyRules(1, Decode(stored), 0)
    IN  {Persist(stored, dry, io, fixed) : io \in IOs}

(***************************************************************************)
(* The documents the files of docs/ hold at first.                         *)
(***************************************************************************)
CleanDoc == <<"#", SP, "O", "K", NL>>

Docs == {CleanDoc, CheckMarkLine, TeachesLine, PartialLine, <<BadByte>>}

(***************************************************************************)
(* State.                                                                  *)
(***************************************************************************)
VARIABLES
    \* fix_file, one rule per step (FixSpec)
    original_content,   \* the text as read
    content,            \* the live text
    replacement_count,  \* running total of matches
    rule,               \* index of the next rule of the loop
    printed,            \* matches of each rule reached so far ("- label: n")
    fpc,                \* "idle" | "rules" | "returned"
    ret,                \* the returned (changed, replacement_count)
    pass,               \* how many times the fixer was applied
    \* main (Spec)
    docs_exists,        \* whether the directory docs exists
    disk,               \* the stored bytes of the files, in sorted order
    dry_run,            \* '--dry-run' in sys.argv or '-n' in sys.argv
    pc,                 \* "start" | "loop" | "exited"
    idx,                \* position of the next file in sorted(md_files)
    fixed_count,
    total_replacements,
    exit_code,          \* -1 while the process runs
    report,             \* per file: what fix_file returned ("ERROR" printed)
    disk0,              \* history: the stored bytes when the run began
    fixed0,             \* history: the rule list applied to each text of disk0
    run                 \* how many times main was invoked

fixvars == <<original_content, content, replacement_count, rule, printed,
             fpc, ret, pass>>

mainvars == <<docs_exists, disk, dry_run, pc, idx, fixed_count,
              total_replacements, exit_code, report, disk0, fixed0, run>>

vars == <<fixvars, mainvars>>

NoRet == [changed |-> FALSE, count |-> 0]

FixStart(t) ==
    /\ original_content = t
    /\ content = t
    /\ replacement_count = 0
    /\ rule = 1
    /\ printed = <<>>
    /\ fpc = "rules"
    /\ ret = NoRet

FixIdle ==
    /\ original_content = <<>>
    /\ content = <<>>
    /\ replacement_count = 0
    /\ rule = 1
    /\ printed = <<>>
    /\ fpc = "idle"
    /\ ret = NoRet
    /\ pass = 0

MainIdle ==
    /\ docs_exists = FALSE
    /\ disk = <<>>
    /\ dry_run = FALSE
    /\ pc = "idle"
    /\ idx = 1
    /\ fixed_count = 0
    /\ total_replacements = 0
    /\ exit_code = -1
    /\ report = <<>>
    /\ disk0 = <<>>
    /\ fixed0 = <<>>
    /\ run = 0

(***************************************************************************)
(* FixSpec: the loop of fix_file on one text.                              *)
(***************************************************************************)
FixInit ==
    /\ \E t \in Inputs : FixStart(t)
    /\ pass = 1
    /\ MainIdle

\* for pattern, replacement, description in REPLACEMENTS: ...
FixApplyRule ==
    /\ fpc = "rules"
    /\ rule <= NumRules
    /\ LET s == ApplyRule(rule, content, replacement_count) IN
         /\ content' = s.content
         /\ replacement_count' = s.count
         /\ printed' = Append(printed, s.matches)
    /\ rule' = rule + 1
    /\ UNCHANGED <<original_content, fpc, ret, pass, mainvars>>

FixReturn ==
    /\ fpc = "rules"
    /\ rule > NumRules
    /\ ret' = Outcome(original_content, content, replacement_count)
    /\ fpc' = "returned"
    /\ UNCHANGED <<original_content, content, replacement_count, rule,
                   printed, pass, mainvars>>

\* the fixer applied to the text a previous application produced
FixAgain ==
    /\ fpc = "returned"
    /\ pass < MaxPasses
    /\ original_content' = content
    /\ content' = content
    /\ replacement_count' = 0
    /\ rule' = 1
    /\ printed' = <<>>
    /\ fpc' = "rules"
    /\ ret' = NoRet
    /\ pass' = pass + 1
    /\ UNCHANGED mainvars

FixNext == FixApplyRule \/ FixReturn \/ FixAgain

FixSpec == FixInit /\ [][FixNext]_vars

(***************************************************************************)
(* Spec: main, run after run over the same directory.                      *)
(***************************************************************************)
FileLists == UNION {[1..n -> Docs] : n \in 0..MaxFiles}

FixedTexts(files) ==
    [i \in 1..Len(files) |-> ApplyRules(1, Decode(files[i]), 0)]

Init ==
    /\ FixIdle
    /\ docs_exists \in BOOLEAN
    /\ disk \in (IF docs_exists THEN FileLists ELSE {<<>>})
    /\ dry_run = FALSE
    /\ pc = "start"
    /\ idx = 1
    /\ fixed_count = 0
    /\ total_replacements = 0
    /\ exit_code = -1
    /\ report = <<>>
    /\ disk0 = disk
    /\ fixed0 = FixedTexts(disk)
    /\ run = 1

\* main, up to the loop: the flag, the check of docs/, the counters.
MainStart ==
    /\ pc = "start"
    /\ \E d \in BOOLEAN : dry_run' = d
    /\ IF docs_exists
       THEN /\ pc' = "loop"
            /\ exit_code' = -1
       ELSE /\ pc' = "exited"
            /\ exit_code' = 1
    /\ idx' = 1
    /\ fixed_count' = 0
    /\ total_replacements' = 0
    /\ report' = <<>>
    /\ disk0' = disk
    /\ fixed0' = FixedTexts(disk)
    /\ UNCHANGED <<docs_exists, disk, run, fixvars>>

\* Variant: the result is stored in the first file of the list.
MainProcess_WritesFirst ==
    /\ pc = "loop"
    /\ idx <= Len(disk)
    /\ \E r \in fix_file_outcomes(disk[idx], dry_run) :
         /\ disk' = [disk EXCEPT ![1] = r.stored]
         /\ fixed_count' = IF r.changed THEN fixed_count + 1 ELSE fixed_count
         /\ total_replacements' =
              IF r.changed THEN total_replacements + r.count
              ELSE total_replacements
         /\ report' = Append(report,
                             [changed |-> r.changed, count |-> r.count,
                              error |-> r.error])
    /\ idx' = idx + 1
    /\ UNCHANGED <<docs_exists, dry_run, pc, exit_code, disk0, fixed0, run,
                   fixvars>>

\* one turn of "for file_path in sorted(md_files)"
MainProcess ==
    /\ pc = "loop"
    /\ idx <= Len(disk)
    /\ \E r \in fix_file_outcomes(disk[idx], dry_run) :
         /\ disk' = [disk EXCEPT ![idx] = r.stored]
         /\ fixed_count' = IF r.changed THEN fixed_count + 1 ELSE fixed_count
         /\ total_replacements' =
              IF r.changed THEN total_replacements + r.count
              ELSE total_replacements
         /\ report' = Append(report,
                             [changed |-> r.changed, count |-> r.count,
                              error |-> r.error])
    /\ idx' = idx + 1
    /\ UNCHANGED <<docs_exists, dry_run, pc, exit_code, disk0, fixed0, run,
                   fixvars>>

\* the summary and "return 0"
MainFinish ==
    /\ pc = "loop"
    /\ idx > Len(disk)
    /\ pc' = "exited"
    /\ exit_code' = 0
    /\ UNCHANGED <<docs_exists, disk, dry_run, idx, fixed_count,
                   total_replacements, report, disk0, fixed0, run, fixvars>>

\* the tool is invoked again
NextRun ==
    /\ pc = "exited"
    /\ run < MaxRuns
    /\ pc' = "start"
    /\ exit_code' = -1
    /\ run' = run + 1
    /\ UNCHANGED <<docs_exists, disk, dry_run, idx, fixed_count,
                   total_replacements, report, disk0, fixed0, fixvars>>

Next == MainStart \/ MainProcess \/ MainFinish \/ NextRun

Spec == Init /\ [][Next]_vars

(***************************************************************************)
(* Properties of the fixer (FixSpec).                                      *)
(***************************************************************************)
RECURSIVE SumSeq(_)
SumSeq(q) == IF q = <<>> THEN 0 ELSE Head(q) + SumSeq(Tail(q))

Returned == fpc = "returned"

CheckMark == RuleNamed("Check mark")
TargetEmoji == RuleNamed("Target emoji")
TargetAlternate == RuleNamed("Target emoji (alternate)")
TreeBranch == RuleNamed("Tree vertical + branch")
TreeSpaces == RuleNamed("Tree vertical with spaces")

\* C1 (as claimed): the fixer applied to the text a previous application of
\* it produced returns changed = false and replacement_count = 0.
C1_Idempotent == (Returned /\ pass >= 2) => ret = NoRet

\* C2 (as claimed): the returned changed is true exactly when the final text
\* differs from the original text, and the returned replacement_count is the
\* sum of the match counts of the rules, each counted on the text as it stood
\* when the rule was reached.
C2_ChangedAndSum ==
    Returned =>
        /\ ret.changed = (content # original_content)
        /\ ret.count = SumSeq(printed)

\* C6 (as claimed): for the text '- ? Complete' the 'Check mark' rule counts
\* one replacement and fix_file returns changed = true, replacement_count = 1.
C6_CheckMarkScenario ==
    (Returned /\ pass = 1 /\ original_content = CheckMarkLine) =>
        /\ printed[CheckMark] = 1
        /\ ret = [changed |-> TRUE, count |-> 1]

\* C7: the text '## ?? **Vision Statement**' becomes
\* '### ?? **Vision Statement**'; of the rules 'Target emoji' and 'Target
\* emoji (alternate)' exactly one counts the occurrence, and fix_file returns
\* changed = true with replacement_count = 1.
C7_VisionScenario ==
    (Returned /\ pass = 1 /\ original_content = VisionHeading) =>
        /\ content = <<"#">> \o VisionHeading
        /\ printed[TargetEmoji] + printed[TargetAlternate] = 1
        /\ ret = [changed |-> TRUE, count |-> 1]

C7_Witness ==
    /\ Returned
    /\ pass = 1
    /\ original_content = VisionHeading
    /\ printed[TargetAlternate] = 1
    /\ content # original_content

\* C8 (as claimed): for the pairs of REPLACEMENTS in which rule a is listed
\* before rule b and b's pattern lies within a's, a text that is one
\* occurrence of a's pattern is transformed by rule a, and rule b then leaves
\* a's output as it is.
PrefixPairs ==
    { [a |-> TreeBranch, b |-> TreeSpaces],
      [a |-> TargetEmoji, b |-> TargetAlternate] }

C8_OrderSensitivity ==
    \A pr \in PrefixPairs :
        (/\ fpc = "rules"
         /\ rule = pr.b + 1
         /\ original_content = REPLACEMENTS[pr.a].pattern) =>
            /\ printed[pr.a] = 1
            /\ content = REPLACEMENTS[pr.a].replacement

(***************************************************************************)
(* Properties of a run (Spec).                                             *)
(***************************************************************************)
Running == pc \in {"loop", "exited"} /\ docs_exists

Processed == 1..Len(report)

Reported(r) == [changed |-> r.changed, count |-> r.count]

\* The io of a live call that meets the same read conditions as the call
\* that produced the report entry e of the file that held `stored`.
SameRead(io, e, stored) ==
    (io.fault = "read") = (e.error /\ Decodable(stored))

WriteSucceeds(io) == io.fault \notin {"open", "write"}

Changed == {i \in Processed : report[i].changed /\ ~report[i].error}

RECURSIVE CountOf(_)
CountOf(S) ==
    IF S = {} THEN 0
    ELSE LET i == CHOOSE x \in S : TRUE
         IN  report[i].count + CountOf(S \ {i})

C4_FailureNonFatal ==
    Running =>
        /\ \A i \in Processed :
             report[i].error => (~report[i].changed /\ report[i].count = 0)
        /\ fixed_count = Cardinality(Changed)
        /\ total_replacements = CountOf(Changed)
        /\ Len(report) = idx - 1
        /\ pc = "loop" => (idx <= Len(disk) + 1 /\ exit_code = -1)
        /\ pc = "exited" => (Len(report) = Len(disk) /\ exit_code = 0)

C4_Witness ==
    /\ pc = "exited"
    /\ exit_code = 0
    /\ \E i, j \in Processed :
         /\ i < j
         /\ report[i].error
         /\ report[j].changed
    /\ fixed_count = 1

\* C5 (as claimed): in a live run the stored file is overwritten exactly when
\* changed is true, the new content being the marker followed by the
\* transformed text; a file in which no pattern matches is reported as
\* changed = false with 0 replacements and keeps its bytes.
NoMatch(i) == fixed0[i].count = 0

C9_FilesIndependent ==
    (Running /\ ~dry_run) =>
        \A i \in 1..Len(disk) :
            /\ i > Len(report) => disk[i] = disk0[i]
            /\ (i <= Len(report) /\ ~report[i].error) =>
                 disk[i] = IF report[i].changed
                           THEN Encode(fixed0[i].content)
                           ELSE disk0[i]

C9_Witness ==
    /\ pc = "loop"
    /\ ~dry_run
    /\ Len(report) = 1
    /\ Len(disk) > 1
    /\ report[1].changed
    /\ disk[1] # disk0[1]
    /\ fixed0[2].content # Decode(disk0[2])
    /\ disk0[2] # disk0[1]

\* C10 (as claimed): a file that a live run has rewritten starts with exactly
\* one byte-order marker, however many live runs came before.
C10_SingleMarker ==
    (Running /\ ~dry_run) =>
        \A i \in Processed :
            report[i].changed =>
                /\ disk[i][1] = BOM
                /\ \A k \in 2..Len(disk[i]) : disk[i][k] # BOM

=============================================================================
